---- MODULE Spec2Model ----
(***************************************************************************)
(* Ambient Weather TX-3102 / TX-3110 decoders of rtl_433.                  *)
(*                                                                         *)
(* Two decode callbacks are modelled, statement by statement:              *)
(*   "tx31xx" : ambient_weather_tx31xx_decode (ambient_weather_tx31xx.c)   *)
(*   "tx3102" : ambient_weather_tx3102_decode, the 168-bit revision        *)
(*              (ambient_weather_tx3102.c)                                 *)
(* A state is the bit buffer row (bitbuffer->bb[0], bits_per_row[0]), the  *)
(* position of the running callback, its locals, the values returned by    *)
(* the completed calls and the readings handed to decoder_output_data.     *)
(* Temperatures are held in tenths of a degree (the C code holds a float   *)
(* with one decimal digit).                                                *)
(***************************************************************************)
EXTENDS Integers, Sequences, FiniteSets, TLC

\* ------------------------------------------------------------------ bounds
\* bytes of row memory behind bitbuffer->bb[0] that the model holds
RowBytes == 26
\* number of times the decode callback is invoked on the same bit buffer
MaxCalls == 2

\* --------------------------------------------------------- program constants
TX31XX_BITLEN == 168
TX3102_BITLEN == 168

preamble == <<170, 45, 212>>

moisture_array == <<0, 7, 13, 20, 27, 33, 40, 47, 53, 60, 67, 73, 80, 87, 93, 99>>

Decoders == {"tx31xx", "tx3102"}

\* ------------------------------------------------------------ bit arithmetic
Pow2(n) == 2 ^ n

Hi(x) == (x \div 16) % 16

Lo(x) == x % 16

RECURSIVE NibbleXor(_, _)
NibbleXor(a, c) ==
    IF a = 0 THEN c
    ELSE IF c = 0 THEN a
    ELSE (((a % 2) + (c % 2)) % 2) + 2 * NibbleXor(a \div 2, c \div 2)

XorTable == [xa \in 0..15 |-> [xc \in 0..15 |-> NibbleXor(xa, xc)]]

\* a ^ c on 16-bit operands
BitXor(a, c) ==
    XorTable[a % 16][c % 16]
    + 16 * XorTable[(a \div 16) % 16][(c \div 16) % 16]
    + 256 * XorTable[(a \div 256) % 16][(c \div 256) % 16]
    + 4096 * XorTable[(a \div 4096) % 16][(c \div 4096) % 16]

\* ----------------------------------------------------- library collaborators
\* one byte of the row; the row memory is RowBytes long
RowAt(row, i) == IF i \in DOMAIN row THEN row[i] ELSE 0

\* the eight bits of the row that start at bit position pos, as a byte
ByteAtBit(row, pos) ==
    LET i == pos \div 8
        s == pos % 8
    IN  IF s = 0 THEN RowAt(row, i)
        ELSE ((RowAt(row, i) * 256 + RowAt(row, i + 1)) \div Pow2(8 - s)) % 256

PatternAt(row, pos, pattern, nbytes) ==
    \A i \in 0..(nbytes - 1) : ByteAtBit(row, pos + 8 * i) = pattern[i + 1]

\* first bit position at or after start where the pattern lies wholly inside
\* the len bits of the row, or len when there is none
bitbuffer_search(row, len, start, pattern, pattern_bits_len) ==
    LET hits == {p \in start..(len - pattern_bits_len) :
                    PatternAt(row, p, pattern, pattern_bits_len \div 8)}
    IN  IF hits = {} THEN len
        ELSE CHOOSE p \in hits : \A q \in hits : p <= q

\* nbytes bytes taken from the row starting at bit position pos
bitbuffer_extract_bytes(row, pos, nbytes) ==
    [i \in 0..(nbytes - 1) |-> ByteAtBit(row, pos + 8 * i)]

\* index of the last bit of the row read by an extraction of len bits at pos
ExtractLastBit(pos, len) == pos + len - 1

RECURSIVE CrcShift(_, _, _)
CrcShift(remainder, polynomial, n) ==
    IF n = 0 THEN remainder
    ELSE CrcShift(IF remainder >= 32768
                  THEN BitXor((remainder * 2) % 65536, polynomial)
                  ELSE (remainder * 2) % 65536,
                  polynomial, n - 1)

\* remainder ^= message[byte] << 8, then eight shifts
CrcByte(remainder, byte, polynomial) ==
    CrcShift(BitXor(remainder, byte * 256), polynomial, 8)

RECURSIVE Crc16From(_, _, _, _, _)
Crc16From(message, done, nBytes, polynomial, remainder) ==
    IF done = nBytes THEN remainder
    ELSE LET next == CrcByte(remainder, message[done], polynomial)
         IN  IF next >= 0
             THEN Crc16From(message, done + 1, nBytes, polynomial, next)
             ELSE 0

crc16(message, nBytes, polynomial, init) ==
    Crc16From(message, 0, nBytes, polynomial, init)

RECURSIVE add_bytes(_, _)
add_bytes(message, num_bytes) ==
    IF num_bytes = 0 THEN 0
    ELSE add_bytes(message, num_bytes - 1) + message[num_bytes - 1]

\* ---------------------------------------------------------------- the inputs
\* what the demodulator hands over: lead bits, the sync pattern, an 18-byte
\* frame, cut at some bit length; row memory past the cut holds the fill bit
LeadLens == {0, 1, 32}

Families == {24, 25}

SubModels == {112, 48, 80}

Channels == {0, 3, 8}

SignBattery == {66, 74}

MoistureCodes == {0, 5, 22, 23}

Integrity == {"ok", "badcrc", "badsum"}

\* bytes 2..16 of the frame (the sample transmission with the chosen fields)
FrameBody(fam, dev, chan, tb, mm) ==
    [j \in 0..14 |->
        CASE j = 0 -> fam
          [] j = 1 -> dev
          [] j = 2 -> 12
          [] j = 3 -> 49
          [] j = 4 -> 64 + chan
          [] j \in {5, 6, 7} -> 255
          [] j \in {8, 9} -> 0
          [] j = 10 -> 35
          [] j = 11 -> tb
          [] j = 12 -> mm
          [] j = 13 -> 255
          [] OTHER -> 240]

FrameOf(body, crc, chk) ==
    [n \in 0..17 |->
        IF n = 0 THEN crc \div 256
        ELSE IF n = 1 THEN crc % 256
        ELSE IF n = 17 THEN chk
        ELSE body[n - 2]]

\* bytes 0-1 and byte 17 of a transmitted frame, intact or damaged
SentCrc(body, integ) ==
    IF integ = "badcrc" THEN (crc16(body, 15, 4129, 0) + 1) % 65536
    ELSE crc16(body, 15, 4129, 0)

SentChecksum(body, integ) ==
    IF integ = "badsum" THEN (256 - (add_bytes(body, 15) % 256)) % 256
    ELSE 255 - (add_bytes(body, 15) % 256)

\* byte n of the byte-aligned transmission: 0xAA preamble before the sync
\* pattern, the sync pattern, the frame, then silence
AirByte(sync, frame, n) ==
    IF n < 0 THEN 170
    ELSE IF n < 3 THEN sync[n + 1]
    ELSE IF n < 21 THEN frame[n - 3]
    ELSE 0

\* byte col of the row when lead preamble bits come before the sync pattern
TxByte(lead, sync, frame, col) ==
    IF lead % 8 = 0 THEN AirByte(sync, frame, col - (lead \div 8))
    ELSE ((AirByte(sync, frame, col - (lead \div 8) - 1) * 256
           + AirByte(sync, frame, col - (lead \div 8))) \div Pow2(lead % 8)) % 256

\* the bits of the byte at or after bit keep (0..8) replaced by the fill bit
CutByte(byte, keep, fill) ==
    IF keep >= 8 THEN byte
    ELSE IF keep <= 0 THEN fill * 255
    ELSE (byte \div Pow2(8 - keep)) * Pow2(8 - keep) + fill * (Pow2(8 - keep) - 1)

MakeRow(lead, sync, frame, len, fill) ==
    [col \in 0..(RowBytes - 1) |->
        CutByte(TxByte(lead, sync, frame, col), len - 8 * col, fill)]

\* ------------------------------------------------------------------- state
VARIABLES dec, bb, bits_per_row, pc, start_pos, dataforcrc, sensor_id,
          battery_ok, sign, temperature, moisture, value, returned, output

vars == <<dec, bb, bits_per_row, pc, start_pos, dataforcrc, sensor_id,
          battery_ok, sign, temperature, moisture, value, returned, output>>

locals == <<start_pos, dataforcrc, sensor_id, battery_ok, sign, temperature,
            moisture, value>>

\* uint8_t *b = bitbuffer->bb[0]: the frame pointer is the row itself
b == bb

BadSync == <<170, 45, 213>>

Init ==
    \E d \in Decoders, lead \in LeadLens, fam \in Families, dev \in SubModels,
       chan \in Channels, tb \in SignBattery, mm \in MoistureCodes,
       integ \in Integrity, sync \in {preamble, BadSync},
       len \in {168, 169, 100, 200}, fill \in {0, 1} :
        /\ len \in {lead + 168, 168, 100}
        /\ (len = lead + 168) => fill = 0
        /\ (len # lead + 168 \/ sync # preamble) =>
               /\ fam = 24 /\ dev \in {112, 48} /\ chan = 3 /\ mm = 5
               /\ integ = "ok"
        /\ (fam # 24 \/ integ # "ok") => (chan = 3 /\ mm = 5 /\ tb = 66)
        /\ dec = d
        /\ \E crc \in {SentCrc(FrameBody(fam, dev, chan, tb, mm), integ)},
              chk \in {SentChecksum(FrameBody(fam, dev, chan, tb, mm), integ)} :
               bb = MakeRow(lead, sync,
                            FrameOf(FrameBody(fam, dev, chan, tb, mm), crc, chk),
                            len, fill)
        /\ bits_per_row = len
        /\ pc = "idle"
        /\ start_pos = 0
        /\ dataforcrc = [i \in 0..14 |-> 0]
        /\ sensor_id = 0
        /\ battery_ok = 0
        /\ sign = 0
        /\ temperature = 0
        /\ moisture = 0
        /\ value = <<>>
        /\ returned = <<>>
        /\ output = <<>>

\* ------------------------------------------------------- pieces of the code
BitLen(d) == IF d = "tx31xx" THEN TX31XX_BITLEN ELSE TX3102_BITLEN

\* the family test left out
FamilyNotChecked(frame) == TRUE

FamilyOk(frame) == frame[2] = 24

\* the device-type test left out
SubModelNotChecked(frame) == TRUE

SubModelOk(frame) == frame[3] = 112 \/ frame[3] = 48

\* the difference kept as an int, without the conversion to uint8_t
ChecksumResidualInt(frame, body) ==
    BitXor(add_bytes(body, 15), 255) - frame[17]

ChecksumResidual(frame, body) ==
    (BitXor(add_bytes(body, 15), 255) - frame[17]) % 256

CrcMatches(frame, body) ==
    crc16(body, 15, 4129, 0) = frame[0] * 256 + frame[1]

\* the CRC comparison left out
IntegritySumOnly(frame, body) == ChecksumResidual(frame, body) = 0

IntegrityOk(frame, body) ==
    ChecksumResidual(frame, body) = 0 /\ CrcMatches(frame, body)

SensorId(frame) == Lo(frame[6])

SanityOk(id) == ~(id > 7)

BatteryOk(frame) == (frame[13] \div 2) % 2

Sign(frame) == (frame[13] \div 8) % 2

NegativeTemperature(row) == Hi(RowAt(row, 19)) * (-10) + Lo(RowAt(row, 19)) * (-1)

PositiveTemperature(frame) ==
    Hi(frame[12]) * 100 + Lo(frame[12]) * 10 + Hi(frame[13])

MoistureCode(frame) == Hi(frame[14]) * 10 + Lo(frame[14])

\* the table indexed by the raw code, without the - 1
MoistureIndexNoOffset(frame) == MoistureCode(frame)

MoistureIndex(frame) == MoistureCode(frame) - 1

\* bytes a read outside moisture_array[0..15] can return
OutsideArray == {0, 90, 255}

TableRead(idx) ==
    IF idx \in 0..15 THEN {moisture_array[idx + 1]} ELSE OutsideArray

UsesTable(d, frame) == d = "tx3102" \/ frame[3] = 112

HexDigits == <<"0", "1", "2", "3", "4", "5", "6", "7", "8", "9",
               "a", "b", "c", "d", "e", "f">>

Hex2(x) == <<HexDigits[Hi(x) + 1], HexDigits[Lo(x) + 1]>>

Reading(d, frame, id, temp, moist, batt, val) ==
    IF d = "tx3102"
    THEN [model |-> "Ambient Weather TX-3102", id |-> id, temperature |-> temp,
          moisture |-> moist, battery |-> IF batt # 0 THEN "OK" ELSE "LOW",
          data |-> val, mic |-> "CRC"]
    ELSE IF frame[3] = 112
    THEN [model |-> "Ambient Weather TX-3102", id |-> id, temperature |-> temp,
          humidity |-> moist, battery |-> IF batt # 0 THEN "OK" ELSE "LOW",
          mic |-> "CRC"]
    ELSE [model |-> "Ambient Weather TX-3108", id |-> id, temperature |-> temp,
          humidity |-> moist, battery |-> IF batt # 0 THEN "OK" ELSE "LOW",
          mic |-> "CRC"]

Return(r) ==
    /\ pc' = "done"
    /\ returned' = Append(returned, r)

\* ------------------------------------------------------------------ actions
Call ==
    /\ pc \in {"idle", "done"}
    /\ Len(returned) < MaxCalls
    /\ pc' = "search"
    /\ start_pos' = 0
    /\ dataforcrc' = [i \in 0..14 |-> 0]
    /\ sensor_id' = 0
    /\ battery_ok' = 0
    /\ sign' = 0
    /\ temperature' = 0
    /\ moisture' = 0
    /\ value' = <<>>
    /\ UNCHANGED <<dec, bb, bits_per_row, returned, output>>

Search ==
    /\ pc = "search"
    /\ start_pos' = bitbuffer_search(bb, bits_per_row, 0, preamble, 24)
    /\ IF start_pos' = bits_per_row
       THEN Return("DECODE_ABORT_EARLY")
       ELSE pc' = "length" /\ UNCHANGED returned
    /\ UNCHANGED <<dec, bb, bits_per_row, dataforcrc, sensor_id, battery_ok,
                   sign, temperature, moisture, value, output>>

LengthCheck ==
    /\ pc = "length"
    /\ IF bits_per_row < BitLen(dec)
       THEN Return("DECODE_ABORT_LENGTH")
       ELSE pc' = "extract" /\ UNCHANGED returned
    /\ UNCHANGED <<dec, bb, bits_per_row, locals, output>>

Extract ==
    /\ pc = "extract"
    /\ LET frame == bitbuffer_extract_bytes(bb, start_pos + 24, 18)
       IN  bb' = [i \in DOMAIN bb |-> IF i < 18 THEN frame[i] ELSE bb[i]]
    /\ dataforcrc' = IF dec = "tx31xx"
                     THEN bitbuffer_extract_bytes(bb', 16, 15)
                     ELSE dataforcrc
    /\ pc' = "family"
    /\ UNCHANGED <<dec, bits_per_row, start_pos, sensor_id, battery_ok, sign,
                   temperature, moisture, value, returned, output>>

FamilyCheck ==
    /\ pc = "family"
    /\ IF ~FamilyOk(b)
       THEN Return("0")
       ELSE /\ pc' = IF dec = "tx31xx" THEN "submodel" ELSE "integrity"
            /\ UNCHANGED returned
    /\ UNCHANGED <<dec, bb, bits_per_row, locals, output>>

SubModelCheck ==
    /\ pc = "submodel"
    /\ IF SubModelOk(b)
       THEN pc' = "integrity" /\ UNCHANGED returned
       ELSE Return("0")
    /\ UNCHANGED <<dec, bb, bits_per_row, locals, output>>

IntegrityCheck ==
    /\ pc = "integrity"
    /\ dataforcrc' = IF dec = "tx3102"
                     THEN [i \in 0..14 |-> b[i + 2]]
                     ELSE dataforcrc
    /\ IF ~IntegrityOk(b, dataforcrc')
       THEN Return("DECODE_FAIL_MIC")
       ELSE pc' = "sanity" /\ UNCHANGED returned
    /\ UNCHANGED <<dec, bb, bits_per_row, start_pos, sensor_id, battery_ok, sign,
                   temperature, moisture, value, output>>

SanityCheck ==
    /\ pc = "sanity"
    /\ value' = IF dec = "tx3102"
                THEN Hex2(b[9]) \o Hex2(b[10]) \o Hex2(b[11]) \o Hex2(b[12])
                     \o Hex2(b[13])
                ELSE value
    /\ sensor_id' = SensorId(b)
    /\ IF ~SanityOk(sensor_id')
       THEN Return("DECODE_FAIL_SANITY")
       ELSE pc' = "fields" /\ UNCHANGED returned
    /\ UNCHANGED <<dec, bb, bits_per_row, start_pos, dataforcrc, battery_ok, sign,
                   temperature, moisture, output>>

ExtractFields ==
    /\ pc = "fields"
    /\ battery_ok' = BatteryOk(b)
    /\ sign' = Sign(b)
    /\ temperature' = IF sign' = 1 THEN NegativeTemperature(b)
                      ELSE PositiveTemperature(b)
    /\ IF UsesTable(dec, b)
       THEN moisture' \in TableRead(MoistureIndex(b))
       ELSE moisture' = MoistureCode(b)
    /\ pc' = "emit"
    /\ UNCHANGED <<dec, bb, bits_per_row, start_pos, dataforcrc, sensor_id, value,
                   returned, output>>

Emit ==
    /\ pc = "emit"
    /\ output' = Append(output, Reading(dec, b, sensor_id, temperature, moisture,
                                        battery_ok, value))
    /\ Return("1")
    /\ UNCHANGED <<dec, bb, bits_per_row, locals>>

Next ==
    \/ Call
    \/ Search
    \/ LengthCheck
    \/ Extract
    \/ FamilyCheck
    \/ SubModelCheck
    \/ IntegrityCheck
    \/ SanityCheck
    \/ ExtractFields
    \/ Emit

Spec == Init /\ [][Next]_vars

\* ------------------------------------------------------------- type sanity
TypeOK ==
    /\ dec \in Decoders
    /\ bb \in [0..(RowBytes - 1) -> 0..255]
    /\ pc \in {"idle", "search", "length", "extract", "family", "submodel",
               "integrity", "sanity", "fields", "emit", "done"}
    /\ Len(returned) <= MaxCalls
    /\ (pc \in {"family", "submodel", "integrity", "sanity", "fields", "emit"}
           => ExtractLastBit(start_pos + 24, 144) < 8 * RowBytes)

\* ------------------------------------------- the checksum test on its own
\* the two 168-bit decoders and the 200-bit decoder that reads the frame in
\* place at row bytes 7..24
ChecksumDecoders == Decoders \cup {"tx3102_200"}

FrameOffset(d) == IF d = "tx3102_200" THEN 7 ELSE 0

\* b[off..off+17] seen as the 18-byte frame
FrameView(d, row) == [m \in 0..17 |-> row[m + FrameOffset(d)]]

\* body bytes other than 0x00 and 0xff
BodySamples == {0, 1, 128, 255}

\* 15 body bytes: nFull times 0xff, then other, then 0x00; the sums cover
\* 0, 1, 128, 255, 256, 383, 510, ..., 3825
SumBody(nFull, other) ==
    [m \in 0..14 |-> IF m < nFull THEN 255 ELSE IF m = nFull THEN other ELSE 0]

SumRow(d, body, received) ==
    [col \in 0..(RowBytes - 1) |->
        IF col - FrameOffset(d) \in 2..16 THEN body[col - FrameOffset(d) - 2]
        ELSE IF col - FrameOffset(d) = 17 THEN received
        ELSE 0]

InitSum ==
    \E d \in ChecksumDecoders, nFull \in 0..15, other \in BodySamples,
       received \in 0..255 :
        /\ (nFull = 15) => other = 0
        /\ dec = d
        /\ bb = SumRow(d, SumBody(nFull, other), received)
        /\ bits_per_row = IF d = "tx3102_200" THEN 200 ELSE 168
        /\ pc = "idle"
        /\ start_pos = 0
        /\ dataforcrc = [i \in 0..14 |-> 0]
        /\ sensor_id = 0
        /\ battery_ok = 0
        /\ sign = 0
        /\ temperature = 0
        /\ moisture = 0
        /\ value = <<>>
        /\ returned = <<>>
        /\ output = <<>>

\* dataforcrc is filled with the 15 body bytes of the frame
CopyBody ==
    /\ pc = "idle"
    /\ dataforcrc' = [i \in 0..14 |-> FrameView(dec, b)[i + 2]]
    /\ pc' = "checksum"
    /\ UNCHANGED <<dec, bb, bits_per_row, start_pos, sensor_id, battery_ok, sign,
                   temperature, moisture, value, returned, output>>

\* uint8_t c_sum = (add_bytes(dataforcrc, 15) ^ 0xFF) - received byte;
\* if (c_sum) return DECODE_FAIL_MIC;
ChecksumTest ==
    /\ pc = "checksum"
    /\ IF ChecksumResidual(FrameView(dec, b), dataforcrc) # 0
       THEN Return("DECODE_FAIL_MIC")
       ELSE pc' = "crc" /\ UNCHANGED returned
    /\ UNCHANGED <<dec, bb, bits_per_row, start_pos, dataforcrc, sensor_id,
                   battery_ok, sign, temperature, moisture, value, output>>

NextSum ==
    \/ CopyBody
    \/ ChecksumTest

ChecksumSpec == InitSum /\ [][NextSum]_vars

\* ------------------------------------------------- vocabulary of the claims
Done == pc = "done"

LastRet == returned[Len(returned)]

\* the search of the running (or last) call found the sync pattern
Located == start_pos # bits_per_row

\* the running (or last) call got past both early aborts: b[0..17] is the
\* candidate frame
Extracted == Located /\ bits_per_row >= 168

\* the whole 18-byte frame lies inside the bits_per_row bits of the row
FullFrame == Located /\ bits_per_row - (start_pos + 24) >= 144

\* the candidate frame has been cut out of the row by this call
PastExtraction ==
    pc \in {"family", "submodel", "integrity", "sanity", "fields", "emit"}
    \/ (Done /\ Extracted)

CandidateBody(frame) == [m \in 0..14 |-> frame[m + 2]]

Crc16Xmodem(frame) == crc16(CandidateBody(frame), 15, 4129, 0)

Sum8(frame) == add_bytes(CandidateBody(frame), 15) % 256

BothChecksPass(frame) ==
    /\ Crc16Xmodem(frame) = frame[0] * 256 + frame[1]
    /\ 255 - Sum8(frame) = frame[17]

Recognised(d, frame) ==
    frame[2] = 24 /\ (d = "tx31xx" => frame[3] \in {112, 48})

EmittedCount == Cardinality({c \in DOMAIN returned : returned[c] = "1"})

OneOutcomePerCall ==
    /\ Len(output) = EmittedCount
    /\ \A c \in DOMAIN returned :
           returned[c] \in {"DECODE_ABORT_EARLY", "DECODE_ABORT_LENGTH", "0",
                            "DECODE_FAIL_MIC", "DECODE_FAIL_SANITY", "1"}

LastReading == output[Len(output)]

\* ----------------------------------------------------------------------- C1
RoundTripFrame(frame) ==
    /\ BothChecksPass(frame)
    /\ frame[2] = 24
    /\ frame[3] = 112
    /\ Lo(frame[6]) = 3
    /\ frame[12] = 35
    /\ Hi(frame[13]) = 4
    /\ (frame[13] \div 8) % 2 = 0
    /\ (frame[13] \div 2) % 2 = 1
    /\ frame[14] = 5

RoundTripCase == Done /\ dec = "tx31xx" /\ Extracted /\ RoundTripFrame(b)

RoundTripReading(moist) ==
    [model |-> "Ambient Weather TX-3102", id |-> 3, temperature |-> 234,
     humidity |-> moist, battery |-> "OK", mic |-> "CRC"]

\* C1 as stated: the round-trip frame (valid CRC and checksum, family 0x18,
\* sub-model 0x70, channel 3, 23.4 C, battery set, moisture code 5) decoded by
\* ambient_weather_tx31xx_decode gives exactly one reading, TX-3102, id 3,
\* 23.4 C, moisture 33, battery OK.
C1_RoundTrip33 ==
    RoundTripCase =>
        /\ LastRet = "1"
        /\ OneOutcomePerCall
        /\ LastReading = RoundTripReading(33)

\* C1 amended: the same frame gives exactly one reading with moisture 27,
\* which is moisture_array[5 - 1].
C1_RoundTrip27 ==
    RoundTripCase =>
        /\ LastRet = "1"
        /\ OneOutcomePerCall
        /\ LastReading = RoundTripReading(27)

C1_Witness == RoundTripCase /\ LastRet = "1" /\ LastReading.humidity = 27

\* ----------------------------------------------------------------------- C2
\* C2: a frame that passes the preamble, length, family/variant and integrity
\* checks is emitted only if its channel nibble is in 1..7; every other
\* nibble, 0 included, ends in DECODE_FAIL_SANITY without a reading.
C2_ChannelOneToSeven ==
    (Done /\ FullFrame /\ Recognised(dec, b) /\ BothChecksPass(b)) =>
        IF Lo(b[6]) \in 1..7
        THEN LastRet # "DECODE_FAIL_SANITY"
        ELSE LastRet = "DECODE_FAIL_SANITY" /\ OneOutcomePerCall

\* ----------------------------------------------------------------------- C3
RawMoistureCode(frame) == 10 * Hi(frame[14]) + Lo(frame[14])

\* C3: in the soil-moisture variant the table is read only at 0..15, code c in
\* 1..16 yields table[c-1], and a frame whose raw moisture code is 0 or above
\* 16 is rejected without a reading.
C3_MoistureDomain ==
    /\ (pc = "emit" /\ b[3] = 112) =>
           /\ MoistureIndex(b) \in 0..15
           /\ moisture = moisture_array[RawMoistureCode(b)]
    /\ (Done /\ FullFrame /\ b[3] = 112 /\ RawMoistureCode(b) \notin 1..16) =>
           LastRet # "1"

\* ----------------------------------------------------------------------- C4
\* C4: when fewer than 144 bits follow the matched sync pattern the call ends
\* in DECODE_ABORT_LENGTH, and the extraction never reads a bit at or beyond
\* bits_per_row.
C4_TooShortAborts ==
    /\ (Done /\ Located /\ bits_per_row - (start_pos + 24) < 144) =>
           LastRet = "DECODE_ABORT_LENGTH"
    /\ PastExtraction => ExtractLastBit(start_pos + 24, 144) < bits_per_row

\* ----------------------------------------------------------------------- C5
\* C5: a reading is emitted (return 1) only if the candidate frame passed both
\* integrity checks: CRC-16/XMODEM over bytes 2..16 equals bytes 0-1, and
\* SUM-8 of bytes 2..16 XOR 0xFF equals byte 17.
C5_EmitOnlyAfterIntegrity ==
    /\ (pc \in {"sanity", "fields", "emit"} \/ (Done /\ LastRet = "1")) =>
           BothChecksPass(b)
    /\ Len(output) = EmittedCount

C5_Witness == Done /\ LastRet = "1" /\ BothChecksPass(b) /\ Len(output) > 0

\* ----------------------------------------------------------------------- C6
\* C6: a located, sufficiently long frame whose family byte is not 0x18 ends
\* in return 0 with no reading, never in DECODE_FAIL_MIC, whatever its CRC and
\* checksum bytes are.
C6_WrongFamilySilent ==
    (Done /\ Extracted /\ b[2] # 24) =>
        /\ LastRet = "0"
        /\ Len(output) = EmittedCount

C6_Witness == Done /\ Extracted /\ b[2] # 24 /\ ~BothChecksPass(b) /\ LastRet = "0"

\* ----------------------------------------------------------------------- C7
\* C7 as stated: family and sub-model are inspected only after both integrity
\* checks passed, so a located, sufficiently long frame that fails the CRC or
\* the checksum always ends in DECODE_FAIL_MIC, never in the silent rejection.
C7_IntegrityBeforeDispatch ==
    /\ (Done /\ Extracted /\ ~BothChecksPass(b)) => LastRet = "DECODE_FAIL_MIC"
    /\ OneOutcomePerCall

\* C7 amended: the family byte (and, in the tx31xx decoder, the sub-model byte)
\* is inspected before the integrity checks; a located, sufficiently long frame
\* that fails the CRC or the checksum ends in DECODE_FAIL_MIC when its family
\* and sub-model are recognised and in the silent return 0 otherwise; the
\* sanity check and the emission come only after both; each call ends in
\* exactly one outcome.
C7_DispatchBeforeIntegrity ==
    /\ (pc = "integrity") => Recognised(dec, b)
    /\ (pc \in {"sanity", "fields", "emit"}) =>
           Recognised(dec, b) /\ BothChecksPass(b)
    /\ (Done /\ Extracted /\ ~BothChecksPass(b)) =>
           LastRet = IF Recognised(dec, b) THEN "DECODE_FAIL_MIC" ELSE "0"
    /\ OneOutcomePerCall

C7_Witness ==
    Done /\ Extracted /\ ~BothChecksPass(b) /\ ~Recognised(dec, b) /\ LastRet = "0"

\* ----------------------------------------------------------------------- C8
SignBitSet(frame) == (frame[13] \div 8) % 2 = 1

\* C8: with the sign bit set the emitted temperature is -(10*d1 + d0) tenths
\* for the two BCD nibbles d1, d0 of a field carried by the 18-byte frame, and
\* is never positive; with the sign bit clear it is
\* 100*hi(byte 12) + 10*lo(byte 12) + hi(byte 13) tenths.
C8_TemperatureFromFrame ==
    (Done /\ FullFrame /\ LastRet = "1") =>
        IF SignBitSet(b)
        THEN /\ LastReading.temperature <= 0
             /\ \E fld \in 0..17 :
                    LastReading.temperature = -(10 * Hi(b[fld]) + Lo(b[fld]))
        ELSE LastReading.temperature =
                 100 * Hi(b[12]) + 10 * Lo(b[12]) + Hi(b[13])

\* ----------------------------------------------------------------------- C9
\* C9: two successive calls on the same bit buffer end the same way: the same
\* return value and, when readings are emitted, identical readings.
C9_SecondCallSame ==
    (Done /\ Len(returned) >= 2) =>
        /\ returned[2] = returned[1]
        /\ (returned[1] = "1" => Len(output) >= 2 /\ output[2] = output[1])

\* ---------------------------------------------------------------------- C10
\* C10: a tx31xx frame that passes integrity with family 0x18 (and a channel
\* the sanity check lets through) is dispatched on byte 3: 0x70 emits the
\* TX-3102 model with moisture = table[code-1], 0x30 emits the
\* thermo-hygrometer model with moisture = 10*hi + lo of byte 14, any other
\* value is rejected without a reading.
C10_SubModelDispatch ==
    (Done /\ dec = "tx31xx" /\ FullFrame /\ b[2] = 24 /\ BothChecksPass(b)
          /\ Lo(b[6]) <= 7) =>
        /\ OneOutcomePerCall
        /\ CASE b[3] = 112 ->
                  /\ LastRet = "1"
                  /\ LastReading.model = "Ambient Weather TX-3102"
                  /\ RawMoistureCode(b) \in 1..16
                  /\ LastReading.humidity = moisture_array[RawMoistureCode(b)]
             [] b[3] = 48 ->
                  /\ LastRet = "1"
                  /\ LastReading.model = "Ambient Weather TX-3108"
                  /\ LastReading.humidity = RawMoistureCode(b)
             [] OTHER -> LastRet = "0"

\* ---------------------------------------------------------------------- C11
\* C11: the checksum test as coded lets a frame through exactly when the
\* complement of the sum of the 15 body bytes taken mod 256 equals the
\* received checksum byte, and rejects it with DECODE_FAIL_MIC exactly when
\* the two differ, whatever the untruncated sum (0..3825) and the received
\* byte (0..255).
C11_SubtractionIsEquality ==
    /\ (pc = "crc") =>
           255 - Sum8(FrameView(dec, b)) = FrameView(dec, b)[17]
    /\ (pc = "done") =>
           /\ LastRet = "DECODE_FAIL_MIC"
           /\ 255 - Sum8(FrameView(dec, b)) # FrameView(dec, b)[17]

\* a body whose untruncated sum exceeds one byte passed the test
C11_Witness ==
    /\ pc = "crc"
    /\ add_bytes(dataforcrc, 15) >= 256
    /\ FrameView(dec, b)[17] = 255 - (add_bytes(dataforcrc, 15) % 256)

\* ---------------------------------------------------------------------- C12
\* the row with every byte outside the candidate frame b[0..17] replaced
FrameOnly(row, other) ==
    [col \in DOMAIN row |-> IF col <= 17 THEN row[col] ELSE other]

\* the fields of a reading as the decoders compute them from the row
FieldsOf(row) ==
    [id |-> SensorId(row),
     battery |-> IF BatteryOk(row) # 0 THEN "OK" ELSE "LOW",
     temperature |-> IF Sign(row) = 1 THEN NegativeTemperature(row)
                     ELSE PositiveTemperature(row)]

\* C12: once the 18-byte candidate frame is extracted, every byte the
\* decoders read has an index in 0..17, so no emitted field depends on a
\* byte outside the frame: the id, battery and temperature of an emitted
\* reading are what the frame bytes b[0..17] alone give, whatever the row
\* holds at index 18 and above.
C12_ReadsWithinFrame ==
    (Done /\ FullFrame /\ LastRet = "1") =>
        \A other \in {0, 255} :
            /\ LastReading.id = FieldsOf(FrameOnly(b, other)).id
            /\ LastReading.battery = FieldsOf(FrameOnly(b, other)).battery
            /\ LastReading.temperature =
                   FieldsOf(FrameOnly(b, other)).temperature

====
